---- MODULE Spec2Model ----
(***************************************************************************)
(* Expense tracker: the dashboard session (transaction loads, filters,     *)
(* totals, grouping), the transaction form, the category manager,          *)
(* default-category seeding and the backing store (tables, row level       *)
(* security, CHECK constraints, ON DELETE SET NULL).                       *)
(*                                                                         *)
(* Amounts are numeric(10,2) in the store; they are modelled in cents.     *)
(* Dates and year-month selectors are strings; they are modelled as        *)
(* sequences of one-character strings so that startsWith and date parsing  *)
(* are computed, not assumed.                                              *)
(***************************************************************************)
EXTENDS Integers, Sequences, FiniteSets, TLC

VARIABLES
    txStore,              \* table transactions, in created_at order
    catStore,             \* table categories (set of rows)
    nextTxId,             \* next transaction id the store hands out
    nextCatId,            \* next category id the store hands out
    transactions,         \* Dashboard state: full list as last loaded
    filteredTransactions, \* Dashboard state: the filtered view
    filterType,           \* Dashboard state: 'all' | 'expense' | 'income'
    selectedMonth,        \* Dashboard state: "YYYY-MM" or ""
    loading,              \* Dashboard state: loading flag
    isModalOpen,          \* Dashboard state
    editTransaction,      \* Dashboard state: row being edited, or None
    clicked,              \* the click that opened the editor now open, or None
    isCategoryManagerOpen,\* Dashboard state
    confirming,           \* the window.confirm call a delete handler is in, or None
    formType,             \* AddTransactionModal state: type
    categoryId,           \* AddTransactionModal state: categoryId ('' is Null)
    categories,           \* AddTransactionModal state: categories
    formInflight,         \* AddTransactionModal: category loads in flight
    totals,               \* rendered {income, expenses, balance}
    groups,               \* rendered TransactionList groups
    inflight,             \* transaction loads in flight
    issued,               \* number of transaction loads issued so far
    appliedId,            \* issue number of the load whose data was applied last
    cmCategories,         \* CategoryManager state: categories
    cmInflight,           \* CategoryManager: number of category loads in flight
    isAdding,             \* CategoryManager state: the form is shown
    editingId,            \* CategoryManager state: editingId (null is Null)
    formData,             \* CategoryManager state: formData
    pcSeed,               \* position of initializeDefaultCategories
    seedLog,              \* batches inserted by initializeDefaultCategories
    seedHad,              \* whether the owner had categories when the select ran
    mounts,               \* number of times the Dashboard has mounted in this run
    ops,                  \* number of store writes issued since the Dashboard mounted
    lastOp,               \* the last store write the user has issued
    lastError,            \* whether the store answered that write with an error
    lastData,             \* the transactionData of that write, or None
    pcSeedOther,          \* position of initializeDefaultCategories of a second
                          \* Dashboard of the same owner (another tab)
    seedHadOther,         \* whether the owner had categories when its select ran
    pc                    \* position of the pure-function pipeline

storeVars == <<txStore, catStore, nextTxId, nextCatId>>
filterVars == <<filterType, selectedMonth>>
modalVars == <<isModalOpen, editTransaction, clicked>>
formVars == <<formType, categoryId, categories, formInflight>>
viewVars == <<transactions, filteredTransactions, totals, groups>>
loadVars == <<inflight, issued, appliedId, loading>>
cmVars == <<isCategoryManagerOpen, cmCategories, cmInflight>>
seedVars == <<pcSeed, seedLog, seedHad, mounts>>
opVars == <<ops, lastOp, lastError, lastData>>
otherVars == <<pcSeedOther, seedHadOther>>
cmFormVars == <<isAdding, editingId, formData>>
vars == <<storeVars, filterVars, modalVars, formVars, viewVars, loadVars,
          cmVars, cmFormVars, seedVars, opVars, otherVars, pc, confirming>>

\* null, for a category_id (ids of rows start at 1)
Null == 0

\* null, for a value that is otherwise a record: the empty option
None == <<>>

Some(x) == <<x>>

----------------------------------------------------------------------------
(* Bounds *)

MaxLen == 3       \* longest input list of the pure-function specification
MaxOps == 1       \* most store writes between two mounts of the Dashboard
MaxCatLoads == 1  \* most category loads of the category manager in flight
MaxFormLoads == 2 \* most category loads of the transaction form in flight
MaxMounts == 2    \* most mounts of the Dashboard in one run
MaxCatId == 22    \* the store hands out category ids below this one

----------------------------------------------------------------------------
(* Strings as character sequences *)

DigitChar == <<"0", "1", "2", "3", "4", "5", "6", "7", "8", "9">>

DigitVal(c) == (CHOOSE n \in 1..10 : DigitChar[n] = c) - 1

\* String.prototype.startsWith
StartsWith(s, p) ==
    /\ Len(p) <= Len(s)
    /\ \A i \in 1..Len(p) : s[i] = p[i]

D0501 == <<"2", "0", "2", "4", "-", "0", "5", "-", "0", "1">>
D0502 == <<"2", "0", "2", "4", "-", "0", "5", "-", "0", "2">>
D0601 == <<"2", "0", "2", "4", "-", "0", "6", "-", "0", "1">>

NoMonth == <<>>
M05 == <<"2", "0", "2", "4", "-", "0", "5">>
M06 == <<"2", "0", "2", "4", "-", "0", "6">>
M07 == <<"2", "0", "2", "4", "-", "0", "7">>
Months == {NoMonth, M05, M06, M07}

FilterTypes == {"all", "expense", "income"}

Owner == "A"

----------------------------------------------------------------------------
(* Date parsing: new Date("YYYY-MM-DD").getTime(), in days instead of ms *)

Num(s, from, to) ==
    LET RECURSIVE N(_)
        N(i) == IF i < from THEN 0 ELSE 10 * N(i - 1) + DigitVal(s[i])
    IN N(to)

\* days since 1970-01-01 of a proleptic Gregorian date
DaysFromCivil(y, m, d) ==
    LET yy == IF m <= 2 THEN y - 1 ELSE y
        era == yy \div 400
        yoe == yy - era * 400
        mp == IF m > 2 THEN m - 3 ELSE m + 9
        doy == (153 * mp + 2) \div 5 + d - 1
        doe == yoe * 365 + yoe \div 4 - yoe \div 100 + doy
    IN era * 146097 + doe - 719468

GetTime(date) ==
    DaysFromCivil(Num(date, 1, 4), Num(date, 6, 7), Num(date, 9, 10))

----------------------------------------------------------------------------
(* Dashboard: applyFilters and calculateTotals *)

ApplyFilters_PeriodOnUnfiltered(txs, ft, month) ==
    LET byType == IF ft # "all"
                  THEN SelectSeq(txs, LAMBDA t : t.type = ft)
                  ELSE txs
    IN IF month # NoMonth
       THEN SelectSeq(txs, LAMBDA t : StartsWith(t.date, month))
       ELSE byType

ApplyFilters(txs, ft, month) ==
    LET byType == IF ft # "all"
                  THEN SelectSeq(txs, LAMBDA t : t.type = ft)
                  ELSE txs
    IN IF month # NoMonth
       THEN SelectSeq(byType, LAMBDA t : StartsWith(t.date, month))
       ELSE byType

\* Array.prototype.reduce((sum, t) => sum + t.amount, 0)
RECURSIVE ReduceAmount(_)
ReduceAmount(s) ==
    IF s = <<>> THEN 0
    ELSE ReduceAmount(SubSeq(s, 1, Len(s) - 1)) + s[Len(s)].amount

CalculateTotals_Unsigned(filtered) ==
    LET income == ReduceAmount(SelectSeq(filtered, LAMBDA t : t.type = "income"))
        expenses == ReduceAmount(SelectSeq(filtered, LAMBDA t : t.type = "expense"))
    IN [income |-> income, expenses |-> expenses,
        balance |-> IF income >= expenses THEN income - expenses
                    ELSE expenses - income]

CalculateTotals(filtered) ==
    LET income == ReduceAmount(SelectSeq(filtered, LAMBDA t : t.type = "income"))
        expenses == ReduceAmount(SelectSeq(filtered, LAMBDA t : t.type = "expense"))
    IN [income |-> income, expenses |-> expenses, balance |-> income - expenses]

----------------------------------------------------------------------------
(* TransactionList: grouping by date *)

\* acc[date].push(transaction), keys kept in insertion order
PushGroup_Front(acc, t) ==
    IF \E i \in 1..Len(acc) : acc[i].date = t.date
    THEN [i \in 1..Len(acc) |->
            IF acc[i].date = t.date
            THEN [acc[i] EXCEPT !.transactions = <<t>> \o @]
            ELSE acc[i]]
    ELSE Append(acc, [date |-> t.date, transactions |-> <<t>>])

PushGroup(acc, t) ==
    IF \E i \in 1..Len(acc) : acc[i].date = t.date
    THEN [i \in 1..Len(acc) |->
            IF acc[i].date = t.date
            THEN [acc[i] EXCEPT !.transactions = Append(@, t)]
            ELSE acc[i]]
    ELSE Append(acc, [date |-> t.date, transactions |-> <<t>>])

RECURSIVE GroupedTransactions(_)
GroupedTransactions(txs) ==
    IF txs = <<>> THEN <<>>
    ELSE PushGroup(GroupedTransactions(SubSeq(txs, 1, Len(txs) - 1)), txs[Len(txs)])

\* comparator of sortedDates: new Date(b).getTime() - new Date(a).getTime()
CompareDates_Ascending(a, b) == GetTime(a.date) - GetTime(b.date)

CompareDates(a, b) == GetTime(b.date) - GetTime(a.date)

\* stable insertion of g into a list already sorted by CompareDates
RECURSIVE InsertSorted(_, _)
InsertSorted(sorted, g) ==
    IF sorted = <<>> THEN <<g>>
    ELSE IF CompareDates(sorted[Len(sorted)], g) <= 0
         THEN Append(sorted, g)
         ELSE Append(InsertSorted(SubSeq(sorted, 1, Len(sorted) - 1), g),
                     sorted[Len(sorted)])

\* Array.prototype.sort (stable)
RECURSIVE SortedDates(_)
SortedDates(gs) ==
    IF gs = <<>> THEN <<>>
    ELSE InsertSorted(SortedDates(SubSeq(gs, 1, Len(gs) - 1)), gs[Len(gs)])

\* what TransactionList renders: <<>> is the empty state
TransactionList(txs) ==
    IF Len(txs) = 0 THEN <<>>
    ELSE SortedDates(GroupedTransactions(txs))

----------------------------------------------------------------------------
(* The store: tables, row level security, referential actions *)

ExpenseCategory(name, color, icon) ==
    [name |-> name, type |-> "expense", color |-> color, icon |-> icon]

IncomeCategory(name, color, icon) ==
    [name |-> name, type |-> "income", color |-> color, icon |-> icon]

\* defaultCategories of initializeDefaultCategories, in source order
DefaultCategories ==
    << ExpenseCategory("Food & Dining", "#ef4444", "utensils"),
       ExpenseCategory("Transportation", "#f97316", "car"),
       ExpenseCategory("Shopping", "#ec4899", "shopping-bag"),
       ExpenseCategory("Entertainment", "#8b5cf6", "film"),
       ExpenseCategory("Bills & Utilities", "#06b6d4", "receipt"),
       ExpenseCategory("Healthcare", "#10b981", "heart"),
       IncomeCategory("Salary", "#22c55e", "banknote"),
       IncomeCategory("Freelance", "#3b82f6", "briefcase"),
       IncomeCategory("Investments", "#14b8a6", "trending-up"),
       IncomeCategory("Other Income", "#84cc16", "plus") >>

\* a row of table categories
CategoryRow(id, uid, c) ==
    [id |-> id, user_id |-> uid, name |-> c.name, type |-> c.type,
     color |-> c.color, icon |-> c.icon]

\* a row of table transactions
TransactionRow(id, uid, f) ==
    [id |-> id, user_id |-> uid, category_id |-> f.category_id,
     amount |-> f.amount, type |-> f.type, description |-> f.description,
     date |-> f.date]

\* policy "Users can view own categories"
VisibleCategories(uid) == {c \in catStore : c.user_id = uid}

\* the embedded resource category:categories(name, color) of one row
JoinCategory(row, uid) ==
    IF \E c \in VisibleCategories(uid) : c.id = row.category_id
    THEN LET c == CHOOSE c \in VisibleCategories(uid) : c.id = row.category_id
         IN Some([name |-> c.name, color |-> c.color])
    ELSE None

JoinedRow(row, uid) ==
    [id |-> row.id, user_id |-> row.user_id, category_id |-> row.category_id,
     amount |-> row.amount, type |-> row.type,
     description |-> row.description, date |-> row.date,
     category |-> JoinCategory(row, uid)]

\* order('date', desc).order('created_at', desc): rows arrive in created_at
\* order, so a newer row goes before every row of the same or an older date
RECURSIVE InsertByDate(_, _)
InsertByDate(sorted, r) ==
    IF sorted = <<>> THEN <<r>>
    ELSE IF GetTime(sorted[1].date) <= GetTime(r.date)
         THEN <<r>> \o sorted
         ELSE <<sorted[1]>> \o InsertByDate(Tail(sorted), r)

RECURSIVE OrderByDateCreated(_)
OrderByDateCreated(rows) ==
    IF rows = <<>> THEN <<>>
    ELSE InsertByDate(OrderByDateCreated(SubSeq(rows, 1, Len(rows) - 1)),
                      rows[Len(rows)])

SelectTransactions_NoPolicy(uid) ==
    LET ordered == OrderByDateCreated(txStore)
    IN [i \in 1..Len(ordered) |-> JoinedRow(ordered[i], uid)]

\* the select of loadTransactions under policy "Users can view own transactions"
SelectTransactions(uid) ==
    LET own == SelectSeq(txStore, LAMBDA r : r.user_id = uid)
        ordered == OrderByDateCreated(own)
    IN [i \in 1..Len(ordered) |-> JoinedRow(ordered[i], uid)]

\* category_id ... REFERENCES categories(id) ON DELETE SET NULL
OnDeleteSetNull_Cascade(rows, catId) ==
    SelectSeq(rows, LAMBDA r : r.category_id # catId)

OnDeleteSetNull(rows, catId) ==
    [i \in 1..Len(rows) |->
        IF rows[i].category_id = catId
        THEN [rows[i] EXCEPT !.category_id = Null]
        ELSE rows[i]]

\* delete().eq('id', id) on categories under policy "Users can delete own categories"
DeletedCategories(uid, id) ==
    {c \in catStore : c.id = id /\ c.user_id = uid}

----------------------------------------------------------------------------
(* Inputs *)

\* what the user types into the amount, description and date fields of the
\* transaction form (amounts in cents)
TxInputs ==
    { [amount |-> 100000, description |-> "salary", date |-> D0502],
      [amount |-> 3000, description |-> "bus", date |-> D0601],
      [amount |-> 0, description |-> "sample", date |-> D0501],
      [amount |-> -500, description |-> "refund", date |-> D0501],
      [amount |-> 3000, description |-> "", date |-> D0601] }

\* what the user types into the category form
CatInputs ==
    { [name |-> "Gym", type |-> "expense", color |-> "#ef4444"],
      [name |-> "Gifts", type |-> "income", color |-> "#f97316"] }

\* rows of another owner, present in the store from the start
OtherCategory ==
    [id |-> 1, user_id |-> "B", name |-> "Rent", type |-> "expense",
     color |-> "#3b82f6", icon |-> "circle"]

OtherTransaction ==
    [id |-> 1, user_id |-> "B", category_id |-> 1, amount |-> 7000,
     type |-> "expense", description |-> "rent", date |-> D0501]

\* the store of an owner who signs in for the first time
FreshStore ==
    [tx |-> <<OtherTransaction>>, cat |-> {OtherCategory}, nextTx |-> 2, nextCat |-> 2]

\* the store of an owner who has used the application before
UsedStore ==
    [tx |-> <<OtherTransaction,
              [id |-> 2, user_id |-> Owner, category_id |-> 2, amount |-> 5000,
               type |-> "expense", description |-> "groceries", date |-> D0501]>>,
     cat |-> {OtherCategory,
              CategoryRow(2, Owner, DefaultCategories[1]),
              CategoryRow(3, Owner, DefaultCategories[7])},
     nextTx |-> 3, nextCat |-> 4]

\* the store of an owner with two transactions, one of them left without a
\* category when its category was deleted, and three categories
EditStore ==
    [tx |-> <<OtherTransaction,
              [id |-> 2, user_id |-> Owner, category_id |-> 3, amount |-> 1210,
               type |-> "expense", description |-> "bus", date |-> D0501],
              [id |-> 3, user_id |-> Owner, category_id |-> Null, amount |-> 100000,
               type |-> "income", description |-> "salary", date |-> D0502]>>,
     cat |-> {OtherCategory,
              CategoryRow(2, Owner, DefaultCategories[1]),
              CategoryRow(3, Owner, DefaultCategories[2]),
              CategoryRow(4, Owner, DefaultCategories[7])},
     nextTx |-> 4, nextCat |-> 5]

----------------------------------------------------------------------------
(* Rendering: the effect on [transactions, filterType, selectedMonth] runs *)
(* applyFilters, and the render that follows computes the totals and the   *)
(* list from filteredTransactions                                          *)

Render_TotalsOfFullList(txs, ft, month, ld) ==
    /\ filteredTransactions' = ApplyFilters(txs, ft, month)
    /\ totals' = CalculateTotals(txs)
    /\ groups' = IF ld THEN <<>> ELSE TransactionList(ApplyFilters(txs, ft, month))

Render(txs, ft, month, ld) ==
    /\ filteredTransactions' = ApplyFilters(txs, ft, month)
    /\ totals' = CalculateTotals(ApplyFilters(txs, ft, month))
    /\ groups' = IF ld THEN <<>> ELSE TransactionList(ApplyFilters(txs, ft, month))

\* loadTransactions up to its await: setLoading(true) and the request
IssueLoad ==
    /\ issued' = issued + 1
    /\ inflight' = Append(inflight, [id |-> issued + 1, phase |-> "sent",
                                      ok |-> FALSE, data |-> <<>>])
    /\ loading' = TRUE
    /\ appliedId' = appliedId
    /\ transactions' = transactions
    /\ Render(transactions, filterType, selectedMonth, TRUE)

\* the record of a store write issued by a user action
Logged(kind, id) ==
    /\ ops' = ops + 1
    /\ lastOp' = [kind |-> kind, id |-> id]

\* window.confirm keeps the page from running anything until it returns, and
\* the handler that called it then runs on to its first await
Running == confirming = None

\* PRESET_COLORS[0]
PresetColor == "#ef4444"

\* the formData a CategoryManager starts with and resets to
DefaultFormData == [name |-> "", type |-> "expense", color |-> PresetColor]

\* the fixed inset-0 overlays of the two dialogs cover the dashboard controls
NoDialog == ~isModalOpen /\ ~isCategoryManagerOpen /\ Running

----------------------------------------------------------------------------
(* Initial state: the Dashboard has mounted, its mount effect has called   *)
(* loadTransactions and initializeDefaultCategories                        *)

\* the Dashboard's own state right after mounting
MountedDashboard ==
    /\ transactions = <<>>
    /\ filteredTransactions = <<>>
    /\ filterType = "all"
    /\ selectedMonth = M05
    /\ loading = TRUE
    /\ isModalOpen = FALSE
    /\ editTransaction = None
    /\ clicked = None
    /\ isCategoryManagerOpen = FALSE
    /\ confirming = None
    /\ formType = "expense"
    /\ categoryId = Null
    /\ categories = {}
    /\ formInflight = <<>>
    /\ totals = [income |-> 0, expenses |-> 0, balance |-> 0]
    /\ groups = <<>>
    /\ inflight = <<[id |-> 1, phase |-> "sent", ok |-> FALSE, data |-> <<>>]>>
    /\ issued = 1
    /\ appliedId = 0
    /\ cmCategories = {}
    /\ cmInflight = 0
    /\ isAdding = FALSE
    /\ editingId = Null
    /\ formData = DefaultFormData
    /\ ops = 0
    /\ lastOp = [kind |-> "none", id |-> Null]
    /\ lastError = FALSE
    /\ lastData = None
    /\ pc = "session"

\* no second Dashboard of the owner is open
NoOtherDashboard ==
    /\ pcSeedOther = "done"
    /\ seedHadOther = "unknown"

HasStore(s) ==
    /\ txStore = s.tx
    /\ catStore = s.cat
    /\ nextTxId = s.nextTx
    /\ nextCatId = s.nextCat

\* the mount effect has just run: initializeDefaultCategories is at its select
InitMount ==
    /\ \E s \in {FreshStore, UsedStore} : HasStore(s)
    /\ MountedDashboard
    /\ pcSeed = "select"
    /\ seedLog = <<>>
    /\ seedHad = "unknown"
    /\ mounts = 1
    /\ NoOtherDashboard

----------------------------------------------------------------------------
(* initializeDefaultCategories *)

\* select('id').eq('user_id', user.id).limit(1): data is null when the call fails
SeedSelect ==
    /\ Running
    /\ pcSeed = "select"
    /\ \E failed \in BOOLEAN :
        LET existingCategories == VisibleCategories(Owner)
        IN pcSeed' = IF failed \/ existingCategories = {} THEN "insert" ELSE "done"
    /\ seedHad' = IF VisibleCategories(Owner) = {} THEN "zero" ELSE "some"
    /\ UNCHANGED <<storeVars, filterVars, modalVars, viewVars, loadVars, cmVars,
                   seedLog, mounts, opVars, pc,
                   formVars,
                   confirming,
                   otherVars,
                   cmFormVars>>

SeedBatch(uid, firstId) ==
    {CategoryRow(firstId + i - 1, uid, DefaultCategories[i]) :
        i \in 1..Len(DefaultCategories)}

SeedInsert_IfAbsent ==
    /\ Running
    /\ pcSeed = "insert"
    /\ nextCatId + Len(DefaultCategories) <= MaxCatId
    /\ IF VisibleCategories(Owner) = {}
       THEN /\ catStore' = catStore \cup SeedBatch(Owner, nextCatId)
            /\ nextCatId' = nextCatId + Len(DefaultCategories)
            /\ seedLog' = Append(seedLog, SeedBatch(Owner, nextCatId))
       ELSE UNCHANGED <<catStore, nextCatId, seedLog>>
    /\ pcSeed' = "done"
    /\ UNCHANGED <<txStore, nextTxId, filterVars, modalVars, viewVars, loadVars,
                   cmVars, seedHad, mounts, opVars, pc,
                   formVars,
                   confirming,
                   otherVars,
                   cmFormVars>>

\* insert(defaultCategories.map(cat => ({...cat, user_id: user.id})))
SeedInsert ==
    /\ Running
    /\ pcSeed = "insert"
    /\ nextCatId + Len(DefaultCategories) <= MaxCatId
    /\ catStore' = catStore \cup SeedBatch(Owner, nextCatId)
    /\ nextCatId' = nextCatId + Len(DefaultCategories)
    /\ seedLog' = Append(seedLog, SeedBatch(Owner, nextCatId))
    /\ pcSeed' = "done"
    /\ UNCHANGED <<txStore, nextTxId, filterVars, modalVars, viewVars, loadVars,
                   cmVars, seedHad, mounts, opVars, pc,
                   formVars,
                   confirming,
                   otherVars,
                   cmFormVars>>

\* initializeDefaultCategories of the second Dashboard: its select
SeedSelectOther ==
    /\ pcSeedOther = "select"
    /\ \E failed \in BOOLEAN :
        LET existingCategories == VisibleCategories(Owner)
        IN pcSeedOther' = IF failed \/ existingCategories = {} THEN "insert" ELSE "done"
    /\ seedHadOther' = IF VisibleCategories(Owner) = {} THEN "zero" ELSE "some"
    /\ UNCHANGED <<storeVars, filterVars, modalVars, viewVars, loadVars, cmVars,
                   seedVars, opVars, pc, formVars, confirming,
                   cmFormVars>>

\* initializeDefaultCategories of the second Dashboard: its insert
SeedInsertOther ==
    /\ pcSeedOther = "insert"
    /\ nextCatId + Len(DefaultCategories) <= MaxCatId
    /\ catStore' = catStore \cup SeedBatch(Owner, nextCatId)
    /\ nextCatId' = nextCatId + Len(DefaultCategories)
    /\ seedLog' = Append(seedLog, SeedBatch(Owner, nextCatId))
    /\ pcSeedOther' = "done"
    /\ UNCHANGED <<txStore, nextTxId, filterVars, modalVars, viewVars, loadVars,
                   cmVars, pcSeed, seedHad, mounts, seedHadOther, opVars, pc,
                   formVars, confirming,
                   cmFormVars>>

----------------------------------------------------------------------------
(* loadTransactions *)

\* the store answers a load: the rows as they are now, or an error
ServerRead(i) ==
    /\ inflight[i].phase = "sent"
    /\ \E failed \in BOOLEAN :
        inflight' = [inflight EXCEPT ![i] =
            [id |-> @.id, phase |-> "ready", ok |-> ~failed,
             data |-> IF failed THEN <<>> ELSE SelectTransactions(Owner)]]
    /\ UNCHANGED <<storeVars, filterVars, modalVars, viewVars, issued, appliedId,
                   loading, cmVars, seedVars, opVars, pc,
                   formVars,
                   confirming,
                   otherVars,
                   cmFormVars>>

RemoveAt(s, i) == SubSeq(s, 1, i - 1) \o SubSeq(s, i + 1, Len(s))

LoadResponse_BlankOnFailure(i) ==
    /\ Running
    /\ inflight[i].phase = "ready"
    /\ inflight' = RemoveAt(inflight, i)
    /\ loading' = FALSE
    /\ transactions' = IF inflight[i].ok THEN inflight[i].data ELSE <<>>
    /\ appliedId' = IF inflight[i].ok THEN inflight[i].id ELSE appliedId
    /\ Render(transactions', filterType, selectedMonth, FALSE)
    /\ UNCHANGED <<storeVars, filterVars, modalVars, issued, cmVars, seedVars,
                   opVars, pc,
                   formVars,
                   confirming,
                   otherVars,
                   cmFormVars>>

\* the rest of loadTransactions: if (data) setTransactions(data); setLoading(false)
LoadResponse(i) ==
    /\ Running
    /\ inflight[i].phase = "ready"
    /\ inflight' = RemoveAt(inflight, i)
    /\ loading' = FALSE
    /\ transactions' = IF inflight[i].ok THEN inflight[i].data ELSE transactions
    /\ appliedId' = IF inflight[i].ok THEN inflight[i].id ELSE appliedId
    /\ Render(transactions', filterType, selectedMonth, FALSE)
    /\ UNCHANGED <<storeVars, filterVars, modalVars, issued, cmVars, seedVars,
                   opVars, pc,
                   formVars,
                   confirming,
                   otherVars,
                   cmFormVars>>

----------------------------------------------------------------------------
(* Filter controls *)

SetFilterType_Reloads(ft) ==
    /\ NoDialog
    /\ ft # filterType
    /\ filterType' = ft
    /\ issued' = issued + 1
    /\ inflight' = Append(inflight, [id |-> issued + 1, phase |-> "sent",
                                      ok |-> FALSE, data |-> <<>>])
    /\ loading' = TRUE
    /\ appliedId' = appliedId
    /\ transactions' = transactions
    /\ Render(transactions, ft, selectedMonth, TRUE)
    /\ UNCHANGED <<storeVars, selectedMonth, modalVars, cmVars, seedVars, opVars,
                   pc, formVars, confirming, otherVars,
                   cmFormVars>>

\* the All, Income and Expenses buttons
SetFilterType(ft) ==
    /\ NoDialog
    /\ ft # filterType
    /\ filterType' = ft
    /\ transactions' = transactions
    /\ Render(transactions, ft, selectedMonth, loading)
    /\ UNCHANGED <<storeVars, selectedMonth, modalVars, loadVars, cmVars,
                   seedVars, opVars, pc,
                   formVars,
                   confirming,
                   otherVars,
                   cmFormVars>>

\* onChange of the month input
SetSelectedMonth(month) ==
    /\ NoDialog
    /\ month # selectedMonth
    /\ selectedMonth' = month
    /\ transactions' = transactions
    /\ Render(transactions, filterType, month, loading)
    /\ UNCHANGED <<storeVars, filterType, modalVars, loadVars, cmVars,
                   seedVars, opVars, pc,
                   formVars,
                   confirming,
                   otherVars,
                   cmFormVars>>

----------------------------------------------------------------------------
(* Transaction editor and row actions *)

\* the alphabetical order of the category names in use: order('name')
NameOrder ==
    << "Bills & Utilities", "Entertainment", "Food & Dining", "Freelance",
       "Gifts", "Gym", "Healthcare", "Investments", "Other Income", "Rent",
       "Salary", "Shopping", "Transportation" >>

NameRank(name) == CHOOSE n \in 1..Len(NameOrder) : NameOrder[n] = name

\* the rows that can be data[0] of a result ordered by name
FirstByName(data) ==
    {c \in data : \A d \in data : NameRank(c.name) <= NameRank(d.name)}

\* loadCategories of AddTransactionModal up to its await; the call keeps the
\* type, editTransaction and categoryId of the render that made it
IssueFormLoad(reqs) ==
    /\ Len(formInflight) + Len(reqs) <= MaxFormLoads
    /\ formInflight' = formInflight \o reqs

FormLoad(type, edit, catId) ==
    [type |-> type, mayDefault |-> edit = None /\ catId = Null]

\* the Add button; the effects on isOpen reset the fields and call
\* loadCategories
OpenAdd ==
    /\ NoDialog
    /\ editTransaction' = None
    /\ isModalOpen' = TRUE
    /\ clicked' = Some([button |-> "add", row |-> None])
    /\ IssueFormLoad(<<FormLoad(formType, None, categoryId)>>)
    /\ formType' = "expense"
    /\ categoryId' = Null
    /\ categories' = categories
    /\ UNCHANGED <<storeVars, filterVars, viewVars, loadVars, cmVars, seedVars,
                   opVars, pc,
                   confirming,
                   otherVars,
                   cmFormVars>>

\* handleEditTransaction, from a row of the rendered list; the effects on
\* isOpen fill the fields in and call loadCategories with the type of the
\* render before, and the effect on type calls it again when the type changes
HandleEditTransaction(t) ==
    /\ NoDialog
    /\ ~loading
    /\ editTransaction' = Some(t)
    /\ isModalOpen' = TRUE
    /\ clicked' = Some([button |-> "edit", row |-> Some(t)])
    /\ IssueFormLoad(IF t.type # formType
                     THEN <<FormLoad(formType, Some(t), categoryId),
                            FormLoad(t.type, Some(t), t.category_id)>>
                     ELSE <<FormLoad(formType, Some(t), categoryId)>>)
    /\ formType' = t.type
    /\ categoryId' = t.category_id
    /\ categories' = categories
    /\ UNCHANGED <<storeVars, filterVars, viewVars, loadVars, cmVars, seedVars,
                   opVars, pc,
                   confirming,
                   otherVars,
                   cmFormVars>>

CloseModal_KeepsEdit ==
    /\ Running
    /\ isModalOpen
    /\ isModalOpen' = FALSE
    /\ editTransaction' = editTransaction
    /\ clicked' = None
    /\ formType' = "expense"
    /\ categoryId' = Null
    /\ UNCHANGED <<storeVars, filterVars, viewVars, loadVars, cmVars, seedVars,
                   opVars, pc, categories, formInflight, confirming, otherVars,
                   cmFormVars>>

\* onClose of AddTransactionModal; the effect on isOpen resets the fields
CloseModal ==
    /\ Running
    /\ isModalOpen
    /\ isModalOpen' = FALSE
    /\ editTransaction' = None
    /\ clicked' = None
    /\ formType' = "expense"
    /\ categoryId' = Null
    /\ UNCHANGED <<storeVars, filterVars, viewVars, loadVars, cmVars, seedVars,
                   opVars, pc, categories, formInflight,
                   confirming,
                   otherVars,
                   cmFormVars>>

\* the Expense and Income buttons of the form; the effect on type calls
\* loadCategories
SetType(type) ==
    /\ Running
    /\ isModalOpen
    /\ type # formType
    /\ formType' = type
    /\ IssueFormLoad(<<FormLoad(type, editTransaction, categoryId)>>)
    /\ UNCHANGED <<storeVars, filterVars, modalVars, viewVars, loadVars, cmVars,
                   seedVars, opVars, pc, categoryId, categories,
                   confirming,
                   otherVars,
                   cmFormVars>>

\* the categories the form asks for: select('*').eq('type', type)
OfferedCategories(uid, type) == {c \in VisibleCategories(uid) : c.type = type}

\* the rest of loadCategories of AddTransactionModal. The store answers with
\* its rows at the time of the answer, or with an error
FormLoadResponse(i) ==
    /\ Running
    /\ formInflight' = RemoveAt(formInflight, i)
    /\ \E failed \in BOOLEAN :
        LET data == OfferedCategories(Owner, formInflight[i].type)
        IN IF failed
           THEN UNCHANGED <<categories, categoryId>>
           ELSE /\ categories' = data
                /\ IF formInflight[i].mayDefault /\ data # {}
                   THEN \E c \in FirstByName(data) : categoryId' = c.id
                   ELSE categoryId' = categoryId
    /\ UNCHANGED <<storeVars, filterVars, modalVars, viewVars, loadVars, cmVars,
                   seedVars, opVars, pc, formType,
                   confirming,
                   otherVars,
                   cmFormVars>>

\* onChange of the category select
SelectCategory(c) ==
    /\ Running
    /\ isModalOpen
    /\ c \in categories
    /\ c.id # categoryId
    /\ categoryId' = c.id
    /\ UNCHANGED <<storeVars, filterVars, modalVars, viewVars, loadVars, cmVars,
                   seedVars, opVars, pc, formType, categories, formInflight,
                   confirming,
                   otherVars,
                   cmFormVars>>

\* the value the category select shows: categoryId when one of the options
\* has it, the empty first option otherwise
SelectValue ==
    IF \E c \in categories : c.id = categoryId THEN categoryId ELSE Null

UpdateTransaction_NoIdFilter(uid, id, data) ==
    [i \in 1..Len(txStore) |->
        IF txStore[i].user_id = uid
        THEN TransactionRow(txStore[i].id, data.user_id, data)
        ELSE txStore[i]]

\* update(transactionData).eq('id', id) under policy "Users can update own transactions"
UpdateTransaction(uid, id, data) ==
    [i \in 1..Len(txStore) |->
        IF txStore[i].id = id /\ txStore[i].user_id = uid
        THEN TransactionRow(id, data.user_id, data)
        ELSE txStore[i]]

\* the categories the user picks from in a run: of those on offer, the oldest
\* of each type
Picked(offered) ==
    {c \in offered : \A d \in offered : d.type = c.type => c.id <= d.id}

CheckAmount_None(row) == TRUE

\* amount numeric(10, 2) NOT NULL CHECK (amount > 0)
CheckAmount(row) == row.amount > 0

\* the constraints of the inputs: amount has min="0", description and date
\* are required (the required category select is SelectValue)
FormValid(f) ==
    /\ f.amount >= 0
    /\ f.description # ""
    /\ f.date # <<>>

\* handleSubmit of AddTransactionModal; the amount, description and date
\* fields are the input. The required category select lets the form submit
\* only when it shows a category
SubmitTransaction(f) ==
    /\ Running
    /\ isModalOpen
    /\ SelectValue # Null
    /\ FormValid(f)
    /\ ops < MaxOps
    /\ \E failed \in BOOLEAN :
        LET transactionData ==
                [user_id |-> Owner, amount |-> f.amount, type |-> formType,
                 description |-> f.description, category_id |-> categoryId,
                 date |-> f.date]
            accepted == ~failed /\ CheckAmount(transactionData)
        IN /\ lastError' = ~accepted
           /\ lastData' = Some(transactionData)
           /\ IF ~accepted
              THEN UNCHANGED <<txStore, nextTxId>>
              ELSE IF editTransaction # None
                   THEN /\ txStore' = UpdateTransaction(Owner, editTransaction[1].id,
                                                        transactionData)
                        /\ nextTxId' = nextTxId
                   ELSE /\ txStore' = Append(txStore,
                                             TransactionRow(nextTxId, Owner, transactionData))
                        /\ nextTxId' = nextTxId + 1
    /\ IssueLoad
    /\ isModalOpen' = FALSE
    /\ editTransaction' = None
    /\ clicked' = None
    /\ formType' = "expense"
    /\ categoryId' = Null
    /\ IF editTransaction # None
       THEN Logged("updateTransaction", editTransaction[1].id)
       ELSE Logged("insertTransaction", nextTxId)
    /\ UNCHANGED <<catStore, nextCatId, filterVars, cmVars, seedVars, pc,
                   categories, formInflight, confirming,
                   otherVars,
                   cmFormVars>>

\* the decimal digits of a natural number
RECURSIVE Digits(_)
Digits(n) ==
    IF n < 10 THEN <<DigitChar[n + 1]>>
    ELSE Append(Digits(n \div 10), DigitChar[(n % 10) + 1])

\* Number.prototype.toString of an amount (in cents): no trailing zeros, no
\* point when the amount is whole
NumberToString(cents) ==
    LET whole == Digits(cents \div 100)
        frac == cents % 100
    IN IF frac = 0 THEN whole
       ELSE IF frac % 10 = 0
            THEN whole \o <<".", DigitChar[(frac \div 10) + 1]>>
            ELSE whole \o <<".", DigitChar[(frac \div 10) + 1], DigitChar[(frac % 10) + 1]>>

\* parseFloat of a decimal string with at most two decimals, in cents
ParseFloat(str) ==
    LET dots == {i \in 1..Len(str) : str[i] = "."}
        point == IF dots = {} THEN Len(str) + 1 ELSE CHOOSE i \in dots : TRUE
        digitAt(i) == IF i <= Len(str) THEN DigitVal(str[i]) ELSE 0
    IN 100 * Num(str, 1, point - 1) + 10 * digitAt(point + 1) + digitAt(point + 2)

\* the amount, description and date fields as the effect on editTransaction
\* fills them in
PopulatedFields(t) ==
    [amount |-> ParseFloat(NumberToString(t.amount)), description |-> t.description,
     date |-> t.date]

\* handleSubmit of AddTransactionModal in edit mode, the user having typed
\* nothing into the amount, description and date fields
SubmitUnchanged ==
    /\ editTransaction # None
    /\ SubmitTransaction(PopulatedFields(editTransaction[1]))

\* delete().eq('id', id) under policy "Users can delete own transactions"
DeleteTransaction(uid, id) ==
    SelectSeq(txStore, LAMBDA r : ~(r.id = id /\ r.user_id = uid))

\* handleDeleteTransaction up to the return of confirm
HandleDeleteTransaction(id) ==
    /\ NoDialog
    /\ ~loading
    /\ \E answer \in BOOLEAN :
          confirming' = Some([kind |-> "deleteTransaction", id |-> id,
                              answer |-> answer])
    /\ UNCHANGED <<storeVars, filterVars, modalVars, formVars, viewVars, loadVars,
                   cmVars, seedVars, opVars, pc,
                   otherVars,
                   cmFormVars>>

----------------------------------------------------------------------------
(* CategoryManager *)

\* loadCategories of CategoryManager up to its await
IssueCategoryLoad ==
    /\ cmInflight < MaxCatLoads
    /\ cmInflight' = cmInflight + 1
    /\ cmCategories' = cmCategories

\* the Categories button; the effect on isOpen calls loadCategories
OpenCategoryManager ==
    /\ NoDialog
    /\ isCategoryManagerOpen' = TRUE
    /\ IssueCategoryLoad
    /\ UNCHANGED <<storeVars, filterVars, modalVars, viewVars, loadVars, seedVars,
                   opVars, pc,
                   formVars,
                   confirming,
                   otherVars,
                   cmFormVars>>

\* onClose of CategoryManager
CloseCategoryManager ==
    /\ Running
    /\ isCategoryManagerOpen
    /\ isCategoryManagerOpen' = FALSE
    /\ UNCHANGED <<storeVars, filterVars, modalVars, viewVars, loadVars,
                   cmCategories, cmInflight, seedVars, opVars, pc,
                   formVars,
                   confirming,
                   otherVars,
                   cmFormVars>>

\* the rest of loadCategories: if (data) setCategories(data). The store
\* answers with its rows at the time of the answer, or with an error
CategoryLoadResponse ==
    /\ Running
    /\ cmInflight > 0
    /\ cmInflight' = cmInflight - 1
    /\ \E failed \in BOOLEAN :
        cmCategories' = IF failed THEN cmCategories ELSE VisibleCategories(Owner)
    /\ UNCHANGED <<storeVars, filterVars, modalVars, viewVars, loadVars,
                   isCategoryManagerOpen, seedVars, opVars, pc,
                   formVars,
                   confirming,
                   otherVars,
                   cmFormVars>>

UpdateCategory_NoIdFilter(uid, id, f) ==
    {IF c.user_id = uid
     THEN [c EXCEPT !.name = f.name, !.type = f.type, !.color = f.color]
     ELSE c : c \in catStore}

\* update({name, type, color}).eq('id', id) under "Users can update own categories"
UpdateCategory(uid, id, f) ==
    {IF c.id = id /\ c.user_id = uid
     THEN [c EXCEPT !.name = f.name, !.type = f.type, !.color = f.color]
     ELSE c : c \in catStore}

\* the Add New Category button, the typing of f and handleSubmit with no
\* editingId, in one step from the closed form to the closed form: insert;
\* the store answers with the row written or with an error
SubmitNewCategory(f) ==
    /\ Running
    /\ isCategoryManagerOpen
    /\ ops < MaxOps
    /\ \E failed \in BOOLEAN :
        /\ lastError' = failed
        /\ lastData' = None
        /\ IF failed
           THEN UNCHANGED <<catStore, nextCatId>>
           ELSE /\ catStore' = catStore \cup
                      {CategoryRow(nextCatId, Owner,
                                   [name |-> f.name, type |-> f.type,
                                    color |-> f.color, icon |-> "circle"])}
                /\ nextCatId' = nextCatId + 1
    /\ IssueCategoryLoad
    /\ Logged("insertCategory", nextCatId)
    /\ UNCHANGED <<txStore, nextTxId, filterVars, modalVars, viewVars, loadVars,
                   isCategoryManagerOpen, seedVars, pc, formVars, confirming,
                   otherVars,
                   cmFormVars>>

\* handleEdit on the category with this id, the typing of f and handleSubmit
\* with editingId set, in one step from the closed form to the closed form:
\* update
SubmitEditedCategory(id, f) ==
    /\ Running
    /\ isCategoryManagerOpen
    /\ ops < MaxOps
    /\ \E failed \in BOOLEAN :
        /\ lastError' = failed
        /\ lastData' = None
        /\ catStore' = IF failed THEN catStore ELSE UpdateCategory(Owner, id, f)
    /\ IssueCategoryLoad
    /\ Logged("updateCategory", id)
    /\ UNCHANGED <<txStore, nextTxId, nextCatId, filterVars, modalVars, viewVars,
                   loadVars, isCategoryManagerOpen, seedVars, pc, formVars,
                   confirming,
                   otherVars,
                   cmFormVars>>

\* the Add New Category button: setIsAdding(true)
StartAdding ==
    /\ Running
    /\ isCategoryManagerOpen
    /\ ~isAdding
    /\ isAdding' = TRUE
    /\ UNCHANGED <<storeVars, filterVars, modalVars, formVars, viewVars, loadVars,
                   cmVars, editingId, formData, seedVars, opVars, otherVars, pc,
                   confirming>>

\* handleEdit, from a category of the displayed lists
HandleEdit(category) ==
    /\ Running
    /\ isCategoryManagerOpen
    /\ category \in cmCategories
    /\ formData' = [name |-> category.name, type |-> category.type,
                    color |-> category.color]
    /\ editingId' = category.id
    /\ isAdding' = TRUE
    /\ UNCHANGED <<storeVars, filterVars, modalVars, formVars, viewVars, loadVars,
                   cmVars, seedVars, opVars, otherVars, pc, confirming>>

\* onChange of the name input and onClick of the type and color buttons
SetFormData(f) ==
    /\ Running
    /\ isCategoryManagerOpen
    /\ isAdding
    /\ f # formData
    /\ formData' = f
    /\ UNCHANGED <<storeVars, filterVars, modalVars, formVars, viewVars, loadVars,
                   cmVars, isAdding, editingId, seedVars, opVars, otherVars, pc,
                   confirming>>

\* cancelForm
CancelForm ==
    /\ Running
    /\ isCategoryManagerOpen
    /\ isAdding
    /\ formData' = DefaultFormData
    /\ isAdding' = FALSE
    /\ editingId' = Null
    /\ UNCHANGED <<storeVars, filterVars, modalVars, formVars, viewVars, loadVars,
                   cmVars, seedVars, opVars, otherVars, pc, confirming>>

\* handleSubmit of CategoryManager, with the form as it is: the name input
\* is required; the store answers the update or the insert with the row
\* written or with an error, and the form is reset either way
HandleSubmit ==
    /\ Running
    /\ isCategoryManagerOpen
    /\ isAdding
    /\ formData.name # ""
    /\ ops < MaxOps
    /\ \E failed \in BOOLEAN :
        /\ lastError' = failed
        /\ lastData' = None
        /\ IF editingId # Null
           THEN /\ catStore' = IF failed THEN catStore
                                ELSE UpdateCategory(Owner, editingId, formData)
                /\ nextCatId' = nextCatId
           ELSE IF failed
                THEN UNCHANGED <<catStore, nextCatId>>
                ELSE /\ catStore' = catStore \cup
                           {CategoryRow(nextCatId, Owner,
                                        [name |-> formData.name, type |-> formData.type,
                                         color |-> formData.color, icon |-> "circle"])}
                     /\ nextCatId' = nextCatId + 1
    /\ formData' = DefaultFormData
    /\ isAdding' = FALSE
    /\ editingId' = Null
    /\ IssueCategoryLoad
    /\ IF editingId # Null
       THEN Logged("updateCategory", editingId)
       ELSE Logged("insertCategory", nextCatId)
    /\ UNCHANGED <<txStore, nextTxId, filterVars, modalVars, viewVars, loadVars,
                   isCategoryManagerOpen, seedVars, otherVars, pc, formVars,
                   confirming>>

\* handleDelete of CategoryManager up to the return of confirm
HandleDeleteCategory(id) ==
    /\ isCategoryManagerOpen
    /\ Running
    /\ \E answer \in BOOLEAN :
          confirming' = Some([kind |-> "deleteCategory", id |-> id,
                              answer |-> answer])
    /\ UNCHANGED <<storeVars, filterVars, modalVars, formVars, viewVars, loadVars,
                   cmVars, seedVars, opVars, pc,
                   otherVars,
                   cmFormVars>>

\* if (confirm(...)) { delete; loadTransactions() } of handleDeleteTransaction
ConfirmedDeleteTransaction(id) ==
    /\ ops < MaxOps
    /\ txStore' = DeleteTransaction(Owner, id)
    /\ IssueLoad
    /\ Logged("deleteTransaction", id)
    /\ lastError' = FALSE
    /\ lastData' = None
    /\ UNCHANGED <<catStore, nextTxId, nextCatId, filterVars, modalVars, formVars,
                   cmVars, seedVars, pc,
                   otherVars,
                   cmFormVars>>

\* if (confirm(...)) { delete; loadCategories() } of handleDelete
ConfirmedDeleteCategory(id) ==
    /\ ops < MaxOps
    /\ catStore' = catStore \ DeletedCategories(Owner, id)
    /\ txStore' = IF DeletedCategories(Owner, id) # {}
                  THEN OnDeleteSetNull(txStore, id)
                  ELSE txStore
    /\ IssueCategoryLoad
    /\ Logged("deleteCategory", id)
    /\ lastError' = FALSE
    /\ lastData' = None
    /\ UNCHANGED <<nextTxId, nextCatId, filterVars, modalVars, formVars, viewVars,
                   loadVars, isCategoryManagerOpen, seedVars, pc,
                   otherVars,
                   cmFormVars>>

\* the handler returns without a call when confirm returned false
Declined ==
    UNCHANGED <<storeVars, filterVars, modalVars, formVars, viewVars, loadVars,
                cmVars, seedVars, opVars, pc,
                   otherVars,
                   cmFormVars>>

AfterConfirm_IgnoresAnswer ==
    /\ confirming # None
    /\ confirming' = None
    /\ IF confirming[1].kind = "deleteTransaction"
       THEN ConfirmedDeleteTransaction(confirming[1].id)
       ELSE ConfirmedDeleteCategory(confirming[1].id)

\* the rest of a delete handler, after confirm has returned
AfterConfirm ==
    /\ confirming # None
    /\ confirming' = None
    /\ IF ~confirming[1].answer
       THEN Declined
       ELSE IF confirming[1].kind = "deleteTransaction"
            THEN ConfirmedDeleteTransaction(confirming[1].id)
            ELSE ConfirmedDeleteCategory(confirming[1].id)

----------------------------------------------------------------------------
(* The dashboard session *)

\* the steps of the session once the Dashboard has mounted; in the form the
\* user keeps the type and the category the form starts with
Next ==
    \/ \E i \in 1..Len(inflight) : ServerRead(i)
    \/ \E i \in 1..Len(inflight) : LoadResponse(i)
    \/ \E ft \in FilterTypes : SetFilterType(ft)
    \/ \E month \in {NoMonth, M05} : SetSelectedMonth(month)
    \/ OpenAdd
    \/ \E i \in 1..Len(filteredTransactions) :
          HandleEditTransaction(filteredTransactions[i])
    \/ CloseModal
    \/ \E i \in 1..Len(formInflight) : FormLoadResponse(i)
    \/ \E f \in TxInputs : SubmitTransaction(f)
    \/ \E i \in 1..Len(filteredTransactions) :
          HandleDeleteTransaction(filteredTransactions[i].id)
    \/ OpenCategoryManager
    \/ CloseCategoryManager
    \/ CategoryLoadResponse
    \/ \E f \in CatInputs : SubmitNewCategory(f)
    \/ \E c \in Picked(cmCategories) : \E f \in CatInputs : SubmitEditedCategory(c.id, f)
    \/ \E c \in Picked(cmCategories) : HandleDeleteCategory(c.id)
    \/ AfterConfirm

\* the session of a returning owner, after initializeDefaultCategories has
\* found the owner's categories and returned
Init ==
    /\ HasStore(UsedStore)
    /\ MountedDashboard
    /\ pcSeed = "done"
    /\ seedLog = <<>>
    /\ seedHad = "some"
    /\ mounts = 1
    /\ NoOtherDashboard

Spec == Init /\ [][Next]_vars

\* the session from the mount on: initializeDefaultCategories and the first
\* load run while the owner works in the category manager
NextMount ==
    \/ SeedSelect
    \/ SeedInsert
    \/ \E i \in 1..Len(inflight) : ServerRead(i)
    \/ \E i \in 1..Len(inflight) : LoadResponse(i)
    \/ OpenCategoryManager
    \/ CloseCategoryManager
    \/ CategoryLoadResponse
    \/ \E f \in CatInputs : SubmitNewCategory(f)
    \/ \E c \in Picked(cmCategories) : \E f \in CatInputs : SubmitEditedCategory(c.id, f)
    \/ \E c \in Picked(cmCategories) : HandleDeleteCategory(c.id)
    \/ AfterConfirm

SpecMount == InitMount /\ [][NextMount]_vars

----------------------------------------------------------------------------
(* The transactions on their own: the owner adds, edits and deletes        *)
(* transactions under the default filters, the category manager closed     *)

NextTransactions ==
    \/ \E i \in 1..Len(inflight) : ServerRead(i)
    \/ \E i \in 1..Len(inflight) : LoadResponse(i)
    \/ OpenAdd
    \/ \E i \in 1..Len(filteredTransactions) :
          HandleEditTransaction(filteredTransactions[i])
    \/ CloseModal
    \/ \E i \in 1..Len(formInflight) : FormLoadResponse(i)
    \/ \E f \in TxInputs : SubmitTransaction(f)
    \/ \E i \in 1..Len(filteredTransactions) :
          HandleDeleteTransaction(filteredTransactions[i].id)
    \/ AfterConfirm

SpecTransactions == Init /\ [][NextTransactions]_vars

----------------------------------------------------------------------------
(* The category manager on its own: the owner adds, edits and deletes      *)
(* categories while the dashboard only loads                               *)

NextCategories ==
    \/ \E i \in 1..Len(inflight) : ServerRead(i)
    \/ \E i \in 1..Len(inflight) : LoadResponse(i)
    \/ OpenCategoryManager
    \/ CloseCategoryManager
    \/ CategoryLoadResponse
    \/ \E f \in CatInputs : SubmitNewCategory(f)
    \/ \E c \in Picked(cmCategories) : \E f \in CatInputs : SubmitEditedCategory(c.id, f)
    \/ \E c \in Picked(cmCategories) : HandleDeleteCategory(c.id)
    \/ AfterConfirm

SpecCategories == Init /\ [][NextCategories]_vars

----------------------------------------------------------------------------
(* The category manager with its form: the owner opens the form to add or  *)
(* on a category, types, cancels, submits, and deletes categories          *)

NextManager ==
    \/ \E i \in 1..Len(inflight) : ServerRead(i)
    \/ \E i \in 1..Len(inflight) : LoadResponse(i)
    \/ OpenCategoryManager
    \/ CloseCategoryManager
    \/ CategoryLoadResponse
    \/ StartAdding
    \/ \E c \in Picked(cmCategories) : HandleEdit(c)
    \/ \E f \in CatInputs : SetFormData(f)
    \/ CancelForm
    \/ HandleSubmit
    \/ \E c \in Picked(cmCategories) : HandleDeleteCategory(c.id)
    \/ AfterConfirm

SpecManager == Init /\ [][NextManager]_vars

----------------------------------------------------------------------------
(* The transaction form in full: the user switches the type and picks      *)
(* categories while the category loads of the form are in flight           *)

NextForm ==
    \/ \E i \in 1..Len(inflight) : ServerRead(i)
    \/ \E i \in 1..Len(inflight) : LoadResponse(i)
    \/ OpenAdd
    \/ \E i \in 1..Len(filteredTransactions) :
          HandleEditTransaction(filteredTransactions[i])
    \/ CloseModal
    \/ \E type \in {"expense", "income"} : SetType(type)
    \/ \E i \in 1..Len(formInflight) : FormLoadResponse(i)
    \/ \E c \in Picked(categories) : SelectCategory(c)
    \/ \E f \in TxInputs : SubmitTransaction(f)

SpecForm == Init /\ [][NextForm]_vars

----------------------------------------------------------------------------
(* The editor on existing rows: the owner opens the form with the Add       *)
(* button or on a row, leaves the type and the category as the form has    *)
(* them, and submits with the fields as filled in or with typed values     *)

NextEdit ==
    \/ \E i \in 1..Len(inflight) : ServerRead(i)
    \/ \E i \in 1..Len(inflight) : LoadResponse(i)
    \/ OpenAdd
    \/ \E i \in 1..Len(filteredTransactions) :
          HandleEditTransaction(filteredTransactions[i])
    \/ CloseModal
    \/ \E i \in 1..Len(formInflight) : FormLoadResponse(i)
    \/ \E f \in TxInputs : SubmitTransaction(f)
    \/ SubmitUnchanged

InitEdit ==
    /\ HasStore(EditStore)
    /\ MountedDashboard
    /\ pcSeed = "done"
    /\ seedLog = <<>>
    /\ seedHad = "some"
    /\ mounts = 1
    /\ NoOtherDashboard

SpecEdit == InitEdit /\ [][NextEdit]_vars

----------------------------------------------------------------------------
(* The filters on their own: the owner of an expense and an income changes *)
(* the filters while loads are in flight and rows are deleted              *)

NextFilters ==
    \/ \E i \in 1..Len(inflight) : ServerRead(i)
    \/ \E i \in 1..Len(inflight) : LoadResponse(i)
    \/ \E ft \in FilterTypes : SetFilterType(ft)
    \/ \E month \in Months : SetSelectedMonth(month)
    \/ \E i \in 1..Len(filteredTransactions) :
          HandleDeleteTransaction(filteredTransactions[i].id)
    \/ AfterConfirm

SpecFilters == InitEdit /\ [][NextFilters]_vars

----------------------------------------------------------------------------
(* Later dashboard loads: the page is loaded again and the Dashboard mounts *)
(* anew, with the store as the earlier loads have left it                  *)

\* the Dashboard mounts again: its state starts over, the requests of the
\* page before are gone, and the mount effect calls loadTransactions and
\* initializeDefaultCategories
Reload ==
    /\ Running
    /\ mounts < MaxMounts
    /\ mounts' = mounts + 1
    /\ transactions' = <<>>
    /\ filteredTransactions' = <<>>
    /\ filterType' = "all"
    /\ selectedMonth' = M05
    /\ loading' = TRUE
    /\ isModalOpen' = FALSE
    /\ editTransaction' = None
    /\ clicked' = None
    /\ isCategoryManagerOpen' = FALSE
    /\ confirming' = None
    /\ formType' = "expense"
    /\ categoryId' = Null
    /\ categories' = {}
    /\ formInflight' = <<>>
    /\ totals' = [income |-> 0, expenses |-> 0, balance |-> 0]
    /\ groups' = <<>>
    /\ inflight' = <<[id |-> issued + 1, phase |-> "sent", ok |-> FALSE, data |-> <<>>]>>
    /\ issued' = issued + 1
    /\ appliedId' = appliedId
    /\ cmCategories' = {}
    /\ cmInflight' = 0
    /\ isAdding' = FALSE
    /\ editingId' = Null
    /\ formData' = DefaultFormData
    /\ ops' = 0
    /\ lastOp' = [kind |-> "none", id |-> Null]
    /\ lastError' = FALSE
    /\ lastData' = None
    /\ pcSeed' = "select"
    /\ seedHad' = "unknown"
    /\ UNCHANGED <<storeVars, seedLog, pc, otherVars>>

\* the store of an owner who got the defaults on the first dashboard load
\* and has removed all of them but the first since
SeededStore ==
    [tx |-> <<OtherTransaction>>,
     cat |-> {OtherCategory} \cup {c \in SeedBatch(Owner, 2) : c.id = 2},
     nextTx |-> 2, nextCat |-> 2 + Len(DefaultCategories)]

\* the owner removes categories in the category manager and loads the page
\* again
NextReload ==
    \/ SeedSelect
    \/ SeedInsert
    \/ \E i \in 1..Len(inflight) : ServerRead(i)
    \/ \E i \in 1..Len(inflight) : LoadResponse(i)
    \/ OpenCategoryManager
    \/ CloseCategoryManager
    \/ CategoryLoadResponse
    \/ \E c \in Picked(cmCategories) : HandleDeleteCategory(c.id)
    \/ AfterConfirm
    \/ Reload

InitReload ==
    /\ HasStore(SeededStore)
    /\ MountedDashboard
    /\ pcSeed = "select"
    /\ seedLog = <<SeedBatch(Owner, 2)>>
    /\ seedHad = "unknown"
    /\ mounts = 1
    /\ NoOtherDashboard

SpecReload == InitReload /\ [][NextReload]_vars

----------------------------------------------------------------------------
(* Two dashboard loads at once: the owner has the Dashboard open in two     *)
(* tabs, and both mount effects have just run                               *)

NextTwoLoads ==
    \/ SeedSelect
    \/ SeedInsert
    \/ SeedSelectOther
    \/ SeedInsertOther
    \/ \E i \in 1..Len(inflight) : ServerRead(i)
    \/ \E i \in 1..Len(inflight) : LoadResponse(i)
    \/ OpenCategoryManager
    \/ CloseCategoryManager
    \/ CategoryLoadResponse

InitTwoLoads ==
    /\ \E s \in {FreshStore, UsedStore} : HasStore(s)
    /\ MountedDashboard
    /\ pcSeed = "select"
    /\ seedLog = <<>>
    /\ seedHad = "unknown"
    /\ mounts = 1
    /\ pcSeedOther = "select"
    /\ seedHadOther = "unknown"

SpecTwoLoads == InitTwoLoads /\ [][NextTwoLoads]_vars

----------------------------------------------------------------------------
(* The derivation pipeline on arbitrary lists: applyFilters, calculateTotals *)
(* and the grouping of TransactionList, applied to lists in any order      *)

\* rows as loadTransactions delivers them
LoadedRow(id, amount, type, description, date) ==
    [id |-> id, user_id |-> Owner, category_id |-> Null, amount |-> amount,
     type |-> type, description |-> description, date |-> date,
     category |-> None]

SampleRows ==
    { LoadedRow(1, 5000, "expense", "groceries", D0501),
      LoadedRow(2, 100000, "income", "salary", D0502),
      LoadedRow(3, 3000, "expense", "bus", D0601),
      LoadedRow(4, 2000, "expense", "lunch", D0502),
      LoadedRow(5, 50000, "income", "refund", D0601) }

\* the lists of at most MaxLen distinct sample rows, in every order
SampleLists ==
    UNION { {l \in [1..n -> SampleRows] : \A i, j \in 1..n : i # j => l[i] # l[j]} :
            n \in 0..MaxLen }

InitPure ==
    /\ HasStore(FreshStore)
    /\ transactions \in SampleLists
    /\ filteredTransactions = <<>>
    /\ filterType \in FilterTypes
    /\ selectedMonth \in Months
    /\ loading = FALSE
    /\ isModalOpen = FALSE
    /\ editTransaction = None
    /\ clicked = None
    /\ isCategoryManagerOpen = FALSE
    /\ confirming = None
    /\ formType = "expense"
    /\ categoryId = Null
    /\ categories = {}
    /\ formInflight = <<>>
    /\ totals = [income |-> 0, expenses |-> 0, balance |-> 0]
    /\ groups = <<>>
    /\ inflight = <<>>
    /\ issued = 0
    /\ appliedId = 0
    /\ cmCategories = {}
    /\ cmInflight = 0
    /\ isAdding = FALSE
    /\ editingId = Null
    /\ formData = DefaultFormData
    /\ pcSeed = "done"
    /\ seedLog = <<>>
    /\ seedHad = "unknown"
    /\ mounts = 1
    /\ NoOtherDashboard
    /\ ops = 0
    /\ lastOp = [kind |-> "none", id |-> Null]
    /\ lastError = FALSE
    /\ lastData = None
    /\ pc = "input"

\* the effect after the list arrives, and the render that follows it
DeriveView ==
    /\ pc = "input"
    /\ pc' = "rendered"
    /\ transactions' = transactions
    /\ Render(transactions, filterType, selectedMonth, FALSE)
    /\ UNCHANGED <<storeVars, filterVars, modalVars, loadVars, cmVars, seedVars,
                   opVars,
                   formVars,
                   confirming,
                   otherVars,
                   cmFormVars>>

NextPure ==
    \/ DeriveView
    \/ pc = "rendered" /\ \E ft \in FilterTypes : SetFilterType(ft)
    \/ pc = "rendered" /\ \E month \in Months : SetSelectedMonth(month)

SpecPure == InitPure /\ [][NextPure]_vars

----------------------------------------------------------------------------
(* Properties.  The definitions below state what is expected of the code   *)
(* without using the operators that model it.                              *)

\* t passes the type filter ft and the period filter month
Keeps(t, ft, month) ==
    /\ ft = "all" \/ t.type = ft
    /\ \/ month = NoMonth
       \/ /\ Len(month) <= Len(t.date)
          /\ SubSeq(t.date, 1, Len(month)) = month

\* the k-th smallest element of a set of numbers
Nth(S, k) == CHOOSE x \in S : Cardinality({y \in S : y < x}) = k - 1

\* the rows of list that pass the filters, in the order of list
ViewOf(list, ft, month) ==
    LET kept == {i \in 1..Len(list) : Keeps(list[i], ft, month)}
    IN [k \in 1..Cardinality(kept) |-> list[Nth(kept, k)]]

RECURSIVE SumAt(_, _)
SumAt(list, I) ==
    IF I = {} THEN 0
    ELSE LET i == CHOOSE i \in I : TRUE
         IN list[i].amount + SumAt(list, I \ {i})

\* the sum of the amounts of the rows of list of one type
SumOfType(list, type) == SumAt(list, {i \in 1..Len(list) : list[i].type = type})

TotalsOf(list) ==
    [income |-> SumOfType(list, "income"),
     expenses |-> SumOfType(list, "expense"),
     balance |-> SumOfType(list, "income") - SumOfType(list, "expense")]

Range(list) == {list[i] : i \in 1..Len(list)}

\* date a is an earlier calendar date than date b (ISO dates, digit by digit)
DateBefore(a, b) ==
    \E i \in 1..Len(a) :
        /\ \A j \in 1..(i - 1) : a[j] = b[j]
        /\ a[i] # b[i]
        /\ DigitVal(a[i]) < DigitVal(b[i])

\* the position of row t in list
PositionIn(list, t) == CHOOSE i \in 1..Len(list) : list[i] = t

\* the places <<g, k>> of the rendered groups
GroupPlaces ==
    UNION { {<<g, k>> : k \in 1..Len(groups[g].transactions)} : g \in 1..Len(groups) }

ScenarioList == <<LoadedRow(1, 5000, "expense", "groceries", D0501),
                  LoadedRow(2, 100000, "income", "salary", D0502),
                  LoadedRow(3, 3000, "expense", "bus", D0601)>>

\* C1: after any sequence of loads, filter changes and writes, the displayed
\* totals are the totals of the view derived from the current full list, the
\* current type filter and the current period filter (and the displayed view
\* is that view), never those of the unfiltered list or of older values.
C1_TotalsOfCurrentView ==
    /\ filteredTransactions = ViewOf(transactions, filterType, selectedMonth)
    /\ totals = TotalsOf(ViewOf(transactions, filterType, selectedMonth))

\* a transaction was added, the list reloaded, and the period filter hides
\* the new row of the full list from the totals
C1_Witness ==
    /\ lastOp.kind = "insertTransaction"
    /\ filterType = "expense"
    /\ selectedMonth = M05
    /\ \E i \in 1..Len(transactions) :
          transactions[i].type = "expense" /\ transactions[i].date = D0601
    /\ totals.income = 0
    /\ totals.expenses = 5000

\* C2: the view under a type filter and a period is made of exactly the rows
\* that are both in the view under the type filter alone and in the view
\* under the period alone.
C2_FilterComposition ==
    pc = "rendered" =>
        filteredTransactions =
            SelectSeq(ApplyFilters(transactions, filterType, NoMonth),
                      LAMBDA t : t \in Range(ApplyFilters(transactions, "all", selectedMonth)))

\* both filters are set, and each of them alone keeps a row the other drops
C2_Witness ==
    /\ pc = "rendered"
    /\ filterType # "all"
    /\ selectedMonth # NoMonth
    /\ filteredTransactions # <<>>
    /\ \E i \in 1..Len(transactions) :
          transactions[i].type = filterType
          /\ ~Keeps(transactions[i], "all", selectedMonth)
    /\ \E i \in 1..Len(transactions) :
          transactions[i].type # filterType
          /\ Keeps(transactions[i], "all", selectedMonth)

\* C3: the view keeps a row iff it passes the type filter (or the filter is
\* all) and its date starts with the period (or the period is empty), keeps
\* the input's relative order, leaves the input list as it was, and is the
\* empty list when nothing matches; Scenario B: type expense with no period
\* keeps the two expense rows.
C3_DeriveView ==
    [][ /\ transactions' = transactions
        /\ pc' = "rendered" =>
              filteredTransactions' = ViewOf(transactions, filterType', selectedMonth')
        /\ (pc' = "rendered" /\ transactions = ScenarioList
            /\ filterType' = "expense" /\ selectedMonth' = NoMonth) =>
              filteredTransactions' = <<ScenarioList[1], ScenarioList[3]>>
        /\ (pc' = "rendered" /\ selectedMonth' = M07) => filteredTransactions' = <<>>
      ]_vars

\* Scenario A: period 2024-05 keeps the two May rows
C3_Witness ==
    /\ pc = "rendered"
    /\ transactions = ScenarioList
    /\ filterType = "all"
    /\ selectedMonth = M05
    /\ filteredTransactions = <<ScenarioList[1], ScenarioList[2]>>

\* C4: income is the sum of the amounts of the view's income rows, expenses
\* the sum of the amounts of its expense rows, balance is income - expenses
\* exactly (negative when expenses exceed income), and all three are 0 for the
\* empty view.
C4_Totals ==
    pc = "rendered" =>
        /\ totals.income = SumOfType(filteredTransactions, "income")
        /\ totals.expenses = SumOfType(filteredTransactions, "expense")
        /\ totals.balance = totals.income - totals.expenses
        /\ filteredTransactions = <<>> =>
              totals = [income |-> 0, expenses |-> 0, balance |-> 0]

\* Scenario B: expenses 80.00, income 0, balance -80.00
C4_Witness ==
    /\ pc = "rendered"
    /\ transactions = ScenarioList
    /\ filterType = "expense"
    /\ selectedMonth = NoMonth
    /\ totals = [income |-> 0, expenses |-> 8000, balance |-> -8000]

\* C5: the groups partition the list: every row is at exactly one place, in
\* the group of its own date; every place holds a row of the list; no group is
\* empty; the groups are in strictly descending date order (so one group per
\* date) whatever the order of the list; the empty list gives no group.
C5_GroupingPartitions ==
    pc = "rendered" =>
        /\ \A i \in 1..Len(filteredTransactions) :
              /\ Cardinality({p \in GroupPlaces :
                    groups[p[1]].transactions[p[2]] = filteredTransactions[i]}) = 1
              /\ \A p \in GroupPlaces :
                    groups[p[1]].transactions[p[2]] = filteredTransactions[i]
                        => groups[p[1]].date = filteredTransactions[i].date
        /\ \A p \in GroupPlaces :
              groups[p[1]].transactions[p[2]] \in Range(filteredTransactions)
        /\ \A g \in 1..Len(groups) : groups[g].transactions # <<>>
        /\ \A g, h \in 1..Len(groups) :
              g < h => DateBefore(groups[h].date, groups[g].date)
        /\ filteredTransactions = <<>> => groups = <<>>

\* a list that is not in date order is rendered as three groups
C5_Witness ==
    /\ pc = "rendered"
    /\ Len(filteredTransactions) = 3
    /\ DateBefore(filteredTransactions[1].date, filteredTransactions[2].date)
    /\ DateBefore(filteredTransactions[3].date, filteredTransactions[2].date)
    /\ Len(groups) = 3

\* C6: within each group the rows are in the relative order they have in the
\* list, for every order of the list.
C6_OrderWithinGroup ==
    pc = "rendered" =>
        \A g \in 1..Len(groups) :
            \A k, l \in 1..Len(groups[g].transactions) :
                k < l =>
                    PositionIn(filteredTransactions, groups[g].transactions[k])
                        < PositionIn(filteredTransactions, groups[g].transactions[l])

\* a group of two rows that are not adjacent in a list not in date order
C6_Witness ==
    /\ pc = "rendered"
    /\ Len(filteredTransactions) = 3
    /\ filteredTransactions[1].date = filteredTransactions[3].date
    /\ DateBefore(filteredTransactions[1].date, filteredTransactions[2].date)
    /\ \E g \in 1..Len(groups) :
          groups[g].transactions = <<filteredTransactions[1], filteredTransactions[3]>>

C8_ReloadAfterEveryWrite ==
    [][ops' = ops + 1 => issued' = issued + 1]_vars

\* C9: a response of an earlier-issued load that arrives after the response
\* of a later-issued load is discarded: it does not change the list.
C9_StaleResponseDiscarded ==
    [][appliedId' < appliedId => transactions' = transactions]_vars

\* C10: on a dashboard load, an owner with zero categories gets exactly one
\* insert of the ten defaults (six expense, four income, all with the owner's
\* id); an owner with at least one category gets no seeding insert.
C10_SeedOnlyWhenEmpty ==
    pcSeed = "done" =>
        /\ seedHad = "zero" =>
              /\ Len(seedLog) = 1
              /\ Cardinality(seedLog[1]) = 10
              /\ Cardinality({c \in seedLog[1] : c.type = "expense"}) = 6
              /\ Cardinality({c \in seedLog[1] : c.type = "income"}) = 4
              /\ \A c \in seedLog[1] : c.user_id = Owner
        /\ seedHad = "some" => seedLog = <<>>

\* C11: once the defaults have been inserted for the owner, no later
\* dashboard load inserts them again, not even a load whose check finds that
\* the owner has no category left.
C11_SeedOnlyOnce ==
    [][(Len(seedLog) >= 1 /\ seedHad = "zero") => seedLog' = seedLog]_vars

\* the category with this id, as the store has it
CategoryOf(id) == CHOOSE c \in catStore : c.id = id

\* C12: once the category loads of the form have completed, the category the
\* form has selected is none or one of the chosen type, and the form never
\* writes a transaction of one type with a category of the other type that it
\* selected itself.
C12_SelectionMatchesType ==
    (isModalOpen /\ formInflight = <<>> /\ SelectValue # Null)
        => CategoryOf(SelectValue).type = formType

\* C13: while the form is open and none of its category loads is in flight,
\* every category it offers is of the chosen type.
C13_OfferedMatchType ==
    (isModalOpen /\ formInflight = <<>>)
        => \A c \in categories : c.type = formType

\* C14: a delete of a transaction or of a category reaches the store only
\* from a handler whose confirmation was accepted for that very row; a handler
\* whose confirmation was declined issues no store call and no reload and
\* leaves the store and the lists in memory as they are.
C14_DeleteOnlyWhenConfirmed ==
    [][ /\ (ops' = ops + 1
            /\ lastOp'.kind \in {"deleteTransaction", "deleteCategory"})
              => confirming = Some([kind |-> lastOp'.kind, id |-> lastOp'.id,
                                    answer |-> TRUE])
        /\ (Len(txStore') < Len(txStore) \/ Cardinality(catStore') < Cardinality(catStore))
              => /\ ops' = ops + 1
                 /\ lastOp'.kind \in {"deleteTransaction", "deleteCategory"}
        /\ (confirming # None /\ ~confirming[1].answer)
              => /\ UNCHANGED <<storeVars, ops, issued, cmInflight, formInflight>>
                 /\ UNCHANGED <<transactions, filteredTransactions, totals,
                                cmCategories, categories>>
      ]_vars

\* the user has declined to delete a category that a transaction refers to,
\* after having declined nothing or deleted nothing before
C14_Witness ==
    /\ confirming = Some([kind |-> "deleteCategory", id |-> 2, answer |-> FALSE])
    /\ \E i \in 1..Len(txStore) : txStore[i].category_id = 2
    /\ \E c \in catStore : c.id = 2

\* C15: when a transaction load fails, the list, the view and the totals
\* stay as they were (empty if nothing was loaded before) and the loading
\* flag is cleared.
C15_FailedLoadKeepsView ==
    [][ (\E i \in 1..Len(inflight) :
            /\ inflight[i].phase = "ready"
            /\ ~inflight[i].ok
            /\ inflight' = RemoveAt(inflight, i))
        => /\ transactions' = transactions
           /\ filteredTransactions' = filteredTransactions
           /\ totals' = totals
           /\ loading' = FALSE
      ]_vars

\* the reload after an insert has failed: the view still shows the rows of
\* the first load, and the loading flag is off
C15_Witness ==
    /\ lastOp.kind = "insertTransaction"
    /\ issued = 2
    /\ appliedId = 1
    /\ inflight = <<>>
    /\ ~loading
    /\ Len(txStore) = 3
    /\ Len(transactions) = 1
    /\ groups # <<>>

\* C16: when the store answers a create or an update of a transaction with
\* an error, the form stays open with its values and the displayed list is
\* unchanged; the form closes only after a write that succeeded.
C16_RejectedWriteKeepsForm ==
    [][ (ops' = ops + 1 /\ lastError'
         /\ lastOp'.kind \in {"insertTransaction", "updateTransaction"})
        => /\ isModalOpen'
           /\ editTransaction' = editTransaction
           /\ formType' = formType
           /\ categoryId' = categoryId
           /\ transactions' = transactions
      ]_vars

\* C17: a submission with an amount that is not strictly positive or with an
\* empty required field is stopped before any insert or update is sent to
\* the store.
C17_InvalidSubmissionBlocked ==
    [][ (ops' = ops + 1
         /\ lastOp'.kind \in {"insertTransaction", "updateTransaction"})
        => /\ lastData'[1].amount > 0
           /\ lastData'[1].description # ""
           /\ lastData'[1].category_id # Null
      ]_vars

\* C18: after any sequence of creates, updates and deletes every transaction
\* in the store has an amount above zero, whatever its type, and a write of
\* an amount that is not above zero is answered with an error and leaves the
\* store as it is.
C18_AmountsPositive ==
    /\ [](\A i \in 1..Len(txStore) : txStore[i].amount > 0)
    /\ [][ (ops' = ops + 1
             /\ lastOp'.kind \in {"insertTransaction", "updateTransaction"}
             /\ lastData'[1].amount <= 0)
            => (lastError' /\ txStore' = txStore)
          ]_vars

\* an expense of 0 was sent to the store, which answered with an error and
\* kept its rows
C18_Witness ==
    /\ lastOp.kind = "insertTransaction"
    /\ lastData # None
    /\ lastData[1].amount = 0
    /\ lastData[1].type = "expense"
    /\ lastError
    /\ txStore = UsedStore.tx

\* C19: the session of owner A reads, creates, changes and deletes no row of
\* owner B: every row of A's loaded transaction list and category lists is
\* A's, every row that is not one of B's initial rows carries A's id, and B's
\* rows are in the store as they were at the start.
C19_OwnerIsolation ==
    /\ \A i \in 1..Len(transactions) : transactions[i].user_id = Owner
    /\ \A i \in 1..Len(transactions) :
          transactions[i].category # None =>
              \E c \in catStore \cup UsedStore.cat :
                  /\ c.user_id = Owner
                  /\ c.id = transactions[i].category_id
    /\ \A c \in cmCategories \cup categories : c.user_id = Owner
    /\ SelectSeq(txStore, LAMBDA r : r.user_id # Owner) = <<OtherTransaction>>
    /\ {c \in catStore : c.user_id # Owner} = {OtherCategory}

\* A has deleted its only transaction and reloaded: its list is empty while
\* B's transaction and category are still in the store
C19_Witness ==
    /\ lastOp.kind = "deleteTransaction"
    /\ appliedId = 2
    /\ transactions = <<>>
    /\ txStore = <<OtherTransaction>>
    /\ OtherCategory \in catStore

\* C20: an edit of a category changes the name, type and color of that
\* category's row and nothing else: no other category row and no transaction
\* changes, so a transaction may afterwards refer to a category of the other
\* type.
C20_CategoryEditFrame ==
    [][ (ops' = ops + 1 /\ lastOp'.kind = "updateCategory")
        => /\ txStore' = txStore
           /\ {c \in catStore' : c.id # lastOp'.id}
                 = {c \in catStore : c.id # lastOp'.id}
           /\ \A c \in catStore : c.id = lastOp'.id =>
                 \E d \in catStore' :
                    /\ d.id = c.id
                    /\ d.user_id = c.user_id
                    /\ d.icon = c.icon
           /\ Cardinality(catStore') = Cardinality(catStore)
      ]_vars

\* the expense category of the owner's expense transaction was turned into an
\* income category: the transaction still refers to it
C20_Witness ==
    /\ lastOp = [kind |-> "updateCategory", id |-> 2]
    /\ ~lastError
    /\ CategoryOf(2).type = "income"
    /\ \E i \in 1..Len(txStore) :
          /\ txStore[i].id = 2
          /\ txStore[i].type = "expense"
          /\ txStore[i].category_id = 2

\* C21: seeding is a check followed by an insert, in two steps: when two
\* dashboard loads of an owner with no category have both run their check
\* before either has inserted, both insert the defaults, and the owner ends
\* up with two full sets of them.
C21_BothLoadsSeed ==
    (pcSeed = "done" /\ pcSeedOther = "done"
     /\ seedHad = "zero" /\ seedHadOther = "zero")
        => /\ Len(seedLog) = 2
           /\ Cardinality(VisibleCategories(Owner)) = 2 * Len(DefaultCategories)
           /\ \A c \in VisibleCategories(Owner) :
                 Cardinality({d \in VisibleCategories(Owner) : d.name = c.name}) = 2

\* both loads found no category and both have inserted: twenty categories
C21_Witness ==
    /\ pcSeed = "done"
    /\ pcSeedOther = "done"
    /\ seedHad = "zero"
    /\ seedHadOther = "zero"
    /\ Cardinality(VisibleCategories(Owner)) > 10

\* C22: a submission of the transaction form is one store write and one
\* only, an update of the row being edited (and of no other row) in edit
\* mode, an insert of one row of the owner in add mode; the rows it does not
\* address stay as they are, and rows change or appear in no other step.
C22_SubmitIsOneWrite ==
    [][ /\ (isModalOpen /\ ~isModalOpen' /\ issued' = issued + 1)
            => /\ ops' = ops + 1
               /\ catStore' = catStore
               /\ IF editTransaction # None
                  THEN /\ lastOp' = [kind |-> "updateTransaction",
                                     id |-> editTransaction[1].id]
                       /\ Len(txStore') = Len(txStore)
                       /\ \A i \in 1..Len(txStore) :
                             txStore[i].id # editTransaction[1].id
                                => txStore'[i] = txStore[i]
                  ELSE /\ lastOp'.kind = "insertTransaction"
                       /\ Len(txStore') \in {Len(txStore), Len(txStore) + 1}
                       /\ \A i \in 1..Len(txStore) : txStore'[i] = txStore[i]
                       /\ Len(txStore') = Len(txStore) + 1 =>
                             /\ txStore'[Len(txStore')].user_id = Owner
                             /\ \A i \in 1..Len(txStore) :
                                   txStore[i].id # txStore'[Len(txStore')].id
        /\ txStore' # txStore => (isModalOpen /\ ~isModalOpen' /\ ops' = ops + 1)
      ]_vars

\* the owner has edited the bus transaction: it has the typed amount, and the
\* owner's other transaction and the other owner's are as they were
C22_Witness ==
    /\ lastOp = [kind |-> "updateTransaction", id |-> 2]
    /\ ~lastError
    /\ Len(txStore) = 3
    /\ txStore[1] = OtherTransaction
    /\ txStore[2].amount = 3000
    /\ txStore[3] = EditStore.tx[3]

\* C23: a submission of the editor opened on a transaction, with no field
\* changed by the user, leaves every transaction in the store as it was.
C23_UnchangedEditIsNoOp ==
    [][ (/\ ops' = ops + 1
         /\ lastOp'.kind = "updateTransaction"
         /\ editTransaction # None
         /\ lastData'[1].amount = editTransaction[1].amount
         /\ lastData'[1].description = editTransaction[1].description
         /\ lastData'[1].date = editTransaction[1].date)
        => txStore' = txStore
      ]_vars

\* C24: while the editor is closed no transaction is marked as being edited;
\* an editor opened with the Add button is in add mode, and an editor opened
\* from a row's edit action has that row, a row of the displayed list, as
\* the transaction being edited.
C24_EditorMode ==
    /\ [](~isModalOpen => editTransaction = None)
    /\ [](isModalOpen =>
            /\ clicked # None
            /\ clicked[1].button = "add" => editTransaction = None
            /\ clicked[1].button = "edit" =>
                  /\ editTransaction # None
                  /\ editTransaction = clicked[1].row)
    /\ [][ (clicked' # clicked /\ clicked' # None /\ clicked'[1].button = "edit")
            => \E i \in 1..Len(filteredTransactions) :
                  clicked'[1].row = Some(filteredTransactions[i])
         ]_vars

\* the editor was opened on a row and closed, and is now open again through
\* the Add button
C24_Witness ==
    /\ isModalOpen
    /\ clicked # None
    /\ clicked[1].button = "add"
    /\ editTransaction = None
    /\ Len(formInflight) = 2
    /\ ~formInflight[1].mayDefault
    /\ formInflight[2].mayDefault

\* C25: the loading flag is on exactly while a transaction load is in
\* flight: with overlapping loads it stays on (and the list is not displayed)
\* until the last of them has completed, and it is off once none is in flight.
C25_LoadingWhileInFlight ==
    /\ loading <=> inflight # <<>>
    /\ inflight # <<>> => groups = <<>>

\* C26: a change of the type filter or of the period issues no store call
\* and no load and leaves the store and the full list in memory as they are;
\* the view and the totals before and after it are those of the same list
\* under the filter values of the moment, so setting the filters back gives
\* the earlier view and totals back.
C26_FilterChangeFrame ==
    [][ filterVars' # filterVars
        => /\ UNCHANGED <<storeVars, transactions, ops, lastOp>>
           /\ UNCHANGED <<issued, inflight, loading, cmInflight, formInflight>>
           /\ filteredTransactions = ViewOf(transactions, filterType, selectedMonth)
           /\ totals = TotalsOf(filteredTransactions)
           /\ filteredTransactions' = ViewOf(transactions, filterType', selectedMonth')
           /\ totals' = TotalsOf(filteredTransactions')
      ]_vars

\* both filters were changed after the first load: expense with no period
\* shows the owner's expense and not the income, and only the load of the
\* mount was ever issued
C26_Witness ==
    /\ filterType = "expense"
    /\ selectedMonth = NoMonth
    /\ Len(transactions) = 2
    /\ Len(filteredTransactions) = 1
    /\ totals = [income |-> 0, expenses |-> 1210, balance |-> -1210]
    /\ issued = 1
    /\ ops = 0
    /\ txStore = EditStore.tx

\* C27: in the category manager an edit target is set only while the form
\* is shown and is a category that is in the store; a submit with an edit
\* target updates that category and inserts none, a submit without one
\* inserts one category of the owner, and cancel and every completed submit
\* leave the form closed, with its default values and no edit target.
C27_EditTarget ==
    /\ [](editingId # Null =>
            /\ isAdding
            /\ \E c \in catStore : c.id = editingId /\ c.user_id = Owner)
    /\ [][ /\ (ops' = ops + 1 /\ lastOp'.kind \in {"updateCategory", "insertCategory"})
               => /\ IF editingId # Null
                     THEN /\ lastOp' = [kind |-> "updateCategory", id |-> editingId]
                          /\ {c.id : c \in catStore'} = {c.id : c \in catStore}
                          /\ {c \in catStore' : c.id # editingId}
                                = {c \in catStore : c.id # editingId}
                     ELSE /\ lastOp'.kind = "insertCategory"
                          /\ catStore \subseteq catStore'
                          /\ Cardinality(catStore' \ catStore) = IF lastError' THEN 0 ELSE 1
                          /\ \A c \in catStore' \ catStore : c.user_id = Owner
                  /\ ~isAdding' /\ editingId' = Null /\ formData' = DefaultFormData
           /\ (isAdding /\ ~isAdding')
               => (editingId' = Null /\ formData' = DefaultFormData)
         ]_vars

====
